---- MODULE Spec2Model ----
(***************************************************************************)
(* Symbol graph of Syncrup-AI: GraphManager (src/src/graph/manager.py)     *)
(* writes File / Function / Class / Call nodes and their relationships     *)
(* into one property graph shared by all projects, and ImpactEngine        *)
(* (src/src/engine/analyzer.py) reads the blast radius of a changed file.  *)
(*                                                                         *)
(* The graph is the value                                                  *)
(*   [nodes |-> set of nodes, props |-> set of non-key properties,         *)
(*    edges |-> set of relationships]                                      *)
(* A node is the record of the properties its MERGE pattern matches on     *)
(* (its label included); a property written by SET is a triple of props.   *)
(***************************************************************************)
EXTENDS Integers, Sequences, FiniteSets, TLC

\* graph: the property graph of the store; ingested: the (project, record)
\* pairs update_file_structure has been called with so far; repositories and
\* connections: the rows of the two SQL tables of the repository API; crawl:
\* one run of CodeDiscovery.discover_and_parse; parse: one run of an
\* extractor's parse_code; registry: the project registered by initialize
\* on one host, with the impact checks made on its files; transactions: the
\* write transactions open on the store, each at one of its statements.
VARIABLES graph, ingested, repositories, connections, crawl, parse,
          registry, transactions

vars == <<graph, ingested, repositories, connections, crawl, parse,
          registry, transactions>>

\* The runs of the crawler and of the extractors.
extraction == <<crawl, parse>>

\* What the operations of GraphManager leave alone.
outside == <<repositories, connections, crawl, parse, registry, transactions>>

\* The requests in progress on a host and on the store.
requests == <<registry, transactions>>

\* ------------------------------------------------------------------ bounds

\* Number of distinct (project, file record) ingestions in one behaviour.
MaxIngest == 3

\* Functions in each of the full files of the repository SpecCap crawls.
CallersPerFile == 5

\* Dependents the crawled repository holds beyond ResultLimit.
MaxOver == 1

\* ------------------------------------------------------------- input domain

Projects == {"p1", "p2"}

Files == {"utils.py", "main.py"}

\* An absent value (Python None, a Cypher null) and a present one.
None == <<>>

Some(x) == <<x>>

Definition(type, name, line) == [type |-> type, name |-> name, line |-> line]

Call(name, parent, line) == [name |-> name, parent |-> parent, line |-> line]

\* {"definitions": [...], "calls": [...]} as an extractor returns it.
Parsed(definitions, calls) == [definitions |-> definitions, calls |-> calls]

\* The parsed contents a file may have: a helper module, a function and a
\* class that call the helper, and an endpoint that calls main and holds a
\* module-level HTTP get.
ParsedFiles ==
    { Parsed(<<Definition("function", "helper", 1)>>, <<>>),
      Parsed(<<Definition("function", "main", 1)>>,
             <<Call("helper", Some("main"), 2)>>),
      Parsed(<<Definition("class", "main", 1)>>,
             <<Call("helper", Some("main"), 2)>>),
      Parsed(<<Definition("function", "get_user", 10)>>,
             <<Call("main", Some("get_user"), 11), Call("get", None, 12)>>) }

\* analysis_result: {"filename": ..., "data": {"definitions": [...], "calls": [...]}}
FileRecords ==
    { [filename |-> f, data |-> d] : f \in Files, d \in ParsedFiles }

\* ------------------------------------------------------------------- nodes

FileNode(filename, project_id) ==
    [label |-> "File", name |-> filename, project_id |-> project_id]

SymbolNode(label, name, filename, project_id) ==
    [label |-> label, name |-> name, filename |-> filename, project_id |-> project_id]

CallNode(name, line, filename, project_id) ==
    [label |-> "Call", name |-> name, line |-> line, filename |-> filename,
     project_id |-> project_id]

Rel(type, from, to) == [type |-> type, from |-> from, to |-> to]

EmptyGraph == [nodes |-> {}, props |-> {}, edges |-> {}]

\* n.key, null when the node has no such property besides its key ones.
Prop(g, n, key) ==
    IF \E t \in g.props : t.node = n /\ t.key = key
    THEN Some((CHOOSE t \in g.props : t.node = n /\ t.key = key).value)
    ELSE None

\* SET n.key = value (a null value removes the property).
SetProp(g, n, key, value) ==
    LET kept == {t \in g.props : ~(t.node = n /\ t.key = key)}
    IN [g EXCEPT !.props =
            IF value = None THEN kept
            ELSE kept \cup {[node |-> n, key |-> key, value |-> value[1]]}]

IsSymbol(n) == n.label \in {"Function", "Class"}

\* -------------------------------------------------------------- ingestion

\* MERGE (f:File {name: $filename, project_id: $project_id})
MergeFile(g, filename, project_id) ==
    [g EXCEPT !.nodes = @ \cup {FileNode(filename, project_id)}]

\* One definition: MERGE the symbol under its label, then CONTAINS from the
\* File node the MATCH finds.  No property besides the key ones is written.
MergeDefinition(g, definition, filename, project_id) ==
    LET label == IF definition.type = "function" THEN "Function" ELSE "Class"
        d == SymbolNode(label, definition.name, filename, project_id)
        g1 == [g EXCEPT !.nodes = @ \cup {d}]
        fs == {f \in g1.nodes : f = FileNode(filename, project_id)}
    IN [g1 EXCEPT !.edges = @ \cup {Rel("CONTAINS", f, d) : f \in fs}]

\* for definition in data["definitions"]: after[i] is the graph once the
\* first i definitions are merged.
MergeDefinitions(g, definitions, filename, project_id) ==
    LET after[i \in 0..Len(definitions)] ==
            IF i = 0 THEN g
            ELSE MergeDefinition(after[i - 1], definitions[i], filename, project_id)
    IN after[Len(definitions)]

\* Step 3 without filename in its OPTIONAL MATCH: a call is linked to the
\* symbols of every file of the project named like its parent.
MergeCallOfAnyFile(g, call, filename, project_id) ==
    LET c == CallNode(call.name, call.line, filename, project_id)
        g1 == SetProp([g EXCEPT !.nodes = @ \cup {c}], c, "parent", call.parent)
        fs == {f \in g1.nodes : f = FileNode(filename, project_id)}
        g2 == [g1 EXCEPT !.edges = @ \cup {Rel("PERFORMS_CALL", f, c) : f \in fs}]
        ps == IF call.parent = None \/ call.parent = Some("") THEN {}
              ELSE {p \in g2.nodes : /\ IsSymbol(p)
                                     /\ p.name = call.parent[1]
                                     /\ p.project_id = project_id}
    IN [g2 EXCEPT !.edges = @ \cup {Rel("CALLS_OUT", p, c) : p \in ps}]

\* Step 3 matching (p:Function) only: a call in a class body is not linked.
MergeCallOfFunction(g, call, filename, project_id) ==
    LET c == CallNode(call.name, call.line, filename, project_id)
        g1 == SetProp([g EXCEPT !.nodes = @ \cup {c}], c, "parent", call.parent)
        fs == {f \in g1.nodes : f = FileNode(filename, project_id)}
        g2 == [g1 EXCEPT !.edges = @ \cup {Rel("PERFORMS_CALL", f, c) : f \in fs}]
        ps == IF call.parent = None \/ call.parent = Some("") THEN {}
              ELSE {p \in g2.nodes : /\ p.label = "Function"
                                     /\ p.name = call.parent[1]
                                     /\ p.filename = filename
                                     /\ p.project_id = project_id}
    IN [g2 EXCEPT !.edges = @ \cup {Rel("CALLS_OUT", p, c) : p \in ps}]

\* Step 1 of a call: MERGE the Call node and SET c.parent.
MergeCallNode(g, call, filename, project_id) ==
    LET c == CallNode(call.name, call.line, filename, project_id)
    IN SetProp([g EXCEPT !.nodes = @ \cup {c}], c, "parent", call.parent)

\* Step 2: MERGE (f)-[:PERFORMS_CALL]->(c) for the File and the Call the two
\* MATCHes find.
LinkCallToFile(g, call, filename, project_id) ==
    LET c == CallNode(call.name, call.line, filename, project_id)
        fs == {f \in g.nodes : f = FileNode(filename, project_id)}
        cs == {n \in g.nodes : n = c}
    IN [g EXCEPT !.edges = @ \cup {Rel("PERFORMS_CALL", f, n) : f \in fs, n \in cs}]

\* Step 3 ("if parent:"): CALLS_OUT from every Function or Class of this
\* file and project named like the parent to the Call the MATCH finds.
LinkCallToParent(g, call, filename, project_id) ==
    LET c == CallNode(call.name, call.line, filename, project_id)
        cs == {n \in g.nodes : n = c}
        ps == IF call.parent = None \/ call.parent = Some("") THEN {}
              ELSE {p \in g.nodes : /\ IsSymbol(p)
                                    /\ p.name = call.parent[1]
                                    /\ p.filename = filename
                                    /\ p.project_id = project_id}
    IN [g EXCEPT !.edges = @ \cup {Rel("CALLS_OUT", p, n) : p \in ps, n \in cs}]

\* One call: the three statements of the loop body.
MergeCall(g, call, filename, project_id) ==
    LinkCallToParent(
        LinkCallToFile(MergeCallNode(g, call, filename, project_id),
                       call, filename, project_id),
        call, filename, project_id)

\* for call in data["calls"]: after[i] is the graph once the first i calls
\* are merged.
MergeCalls(g, calls, filename, project_id) ==
    LET after[i \in 0..Len(calls)] ==
            IF i = 0 THEN g
            ELSE MergeCall(after[i - 1], calls[i], filename, project_id)
    IN after[Len(calls)]

\* _create_structure with its two loops exchanged: a call is attributed
\* before the symbol of its parent exists.
create_structure_calls_first(g, filename, data, project_id) ==
    MergeDefinitions(MergeCalls(MergeFile(g, filename, project_id),
                                data.calls, filename, project_id),
                     data.definitions, filename, project_id)

\* GraphManager._create_structure
create_structure(g, filename, data, project_id) ==
    MergeCalls(MergeDefinitions(MergeFile(g, filename, project_id),
                                data.definitions, filename, project_id),
               data.calls, filename, project_id)

\* update_file_structure that first deletes what the store holds of the file.
update_file_structure_pruning(g, project_id, analysis_result) ==
    LET gone == {n \in g.nodes :
                    /\ n.project_id = project_id
                    /\ n.label # "File"
                    /\ n.filename = analysis_result.filename}
        kept == [nodes |-> g.nodes \ gone,
                 props |-> {t \in g.props : t.node \notin gone},
                 edges |-> {e \in g.edges : e.from \notin gone /\ e.to \notin gone}]
    IN create_structure(kept, analysis_result.filename, analysis_result.data, project_id)

\* GraphManager.update_file_structure, of the manager of project_id
update_file_structure(g, project_id, analysis_result) ==
    create_structure(g, analysis_result.filename, analysis_result.data, project_id)

\* for file_analysis in files_data: graph.update_file_structure(file_analysis)
IngestAll(g, project_id, records) ==
    LET after[i \in 0..Len(records)] ==
            IF i = 0 THEN g
            ELSE update_file_structure(after[i - 1], project_id, records[i])
    IN after[Len(records)]

\* The orders a finite set can be listed in.
Orders(S) ==
    {order \in [1..Cardinality(S) -> S] :
        \A i, j \in DOMAIN order : order[i] = order[j] => i = j}

\* -------------------------------------------------------------- resolution

\* Cypher STARTS WITH and CONTAINS on strings (case-sensitive).
StartsWith(s, prefix) ==
    Len(s) >= Len(prefix) /\ SubSeq(s, 1, Len(prefix)) = prefix

Contains(s, part) ==
    \E i \in 1..(Len(s) - Len(part) + 1) : SubSeq(s, i, i + Len(part) - 1) = part

\* c.name IN ['post', 'get', 'put', 'delete', 'fetch', 'request']
HttpVerbs == {"post", "get", "put", "delete", "fetch", "request"}

\* The naming heuristic of a candidate endpoint function.
LooksLikeEndpoint(name) ==
    \/ StartsWith(name, "create_")
    \/ StartsWith(name, "get_")
    \/ StartsWith(name, "update_")
    \/ StartsWith(name, "delete_")
    \/ StartsWith(name, "api_")
    \/ Contains(name, "endpoint")

CallsOf(g, project_id) ==
    {c \in g.nodes : c.label = "Call" /\ c.project_id = project_id}

FunctionsOf(g, project_id) ==
    {f \in g.nodes : f.label = "Function" /\ f.project_id = project_id}

\* Rule 1 matching (f) of any label: a call also targets a class of its name.
ResolveByNameAnyLabel(g, project_id) ==
    [g EXCEPT !.edges = @ \cup
        {Rel("TARGETS", cf[1], cf[2]) : cf \in
            {cf \in CallsOf(g, project_id)
                      \X {f \in g.nodes : IsSymbol(f) /\ f.project_id = project_id} :
                cf[1].name = cf[2].name}}]

\* Rule 1 restricted to a call and a function of one file.
ResolveByNameSameFile(g, project_id) ==
    [g EXCEPT !.edges = @ \cup
        {Rel("TARGETS", cf[1], cf[2]) : cf \in
            {cf \in CallsOf(g, project_id) \X FunctionsOf(g, project_id) :
                cf[1].name = cf[2].name /\ cf[1].filename = cf[2].filename}}]

\* Rule 1: MERGE (c)-[:TARGETS]->(f) for c.name = f.name
ResolveByName(g, project_id) ==
    [g EXCEPT !.edges = @ \cup
        {Rel("TARGETS", c, f) : <<c, f>> \in
            {cf \in CallsOf(g, project_id) \X FunctionsOf(g, project_id) :
                cf[1].name = cf[2].name}}]

\* Rule 2 without its second MERGE: CALLS_ENDPOINT only.
StitchEndpointsNoTargets(g, project_id) ==
    LET pairs == {cf \in CallsOf(g, project_id) \X FunctionsOf(g, project_id) :
                     cf[1].name \in HttpVerbs /\ LooksLikeEndpoint(cf[2].name)}
    IN [g EXCEPT !.edges = @ \cup {Rel("CALLS_ENDPOINT", cf[1], cf[2]) : cf \in pairs}]

\* Rule 2: MERGE (c)-[:CALLS_ENDPOINT]->(f) and MERGE (c)-[:TARGETS]->(f)
StitchEndpoints(g, project_id) ==
    LET pairs == {cf \in CallsOf(g, project_id) \X FunctionsOf(g, project_id) :
                     cf[1].name \in HttpVerbs /\ LooksLikeEndpoint(cf[2].name)}
    IN [g EXCEPT !.edges = @ \cup {Rel("CALLS_ENDPOINT", cf[1], cf[2]) : cf \in pairs}
                               \cup {Rel("TARGETS", cf[1], cf[2]) : cf \in pairs}]

RelsOf(g, type) == {e \in g.edges : e.type = type}

\* Rule 3 with (caller:Function) in place of (caller): a class that calls
\* a function gets no edge.
DeriveDependenciesOfFunctions(g, project_id) ==
    LET outs == {a \in RelsOf(g, "CALLS_OUT") :
                    /\ a.from.label = "Function"
                    /\ a.from.project_id = project_id
                    /\ a.to.label = "Call" /\ a.to.project_id = project_id}
        tgts == {b \in RelsOf(g, "TARGETS") :
                    b.to.label = "Function" /\ b.to.project_id = project_id}
        paths == {ab \in outs \X tgts : ab[1].to = ab[2].from}
    IN [g EXCEPT !.edges = @ \cup
            {Rel("DEPENDS_ON_SYMBOL", ab[1].from, ab[2].to) : ab \in paths}]

\* Rule 3 following PERFORMS_CALL in place of CALLS_OUT: the File that
\* performs a call depends on its target.
DeriveDependenciesOfFiles(g, project_id) ==
    LET outs == {a \in RelsOf(g, "PERFORMS_CALL") :
                    /\ a.from.project_id = project_id
                    /\ a.to.label = "Call" /\ a.to.project_id = project_id}
        tgts == {b \in RelsOf(g, "TARGETS") :
                    b.to.label = "Function" /\ b.to.project_id = project_id}
        paths == {ab \in outs \X tgts : ab[1].to = ab[2].from}
    IN [g EXCEPT !.edges = @ \cup
            {Rel("DEPENDS_ON_SYMBOL", ab[1].from, ab[2].to) : ab \in paths}]

\* Rule 3: MERGE (caller)-[:DEPENDS_ON_SYMBOL]->(target) for every path
\* caller -[:CALLS_OUT]-> c:Call -[:TARGETS]-> target:Function of the project
DeriveDependencies(g, project_id) ==
    LET outs == {a \in RelsOf(g, "CALLS_OUT") :
                    /\ a.from.project_id = project_id
                    /\ a.to.label = "Call" /\ a.to.project_id = project_id}
        tgts == {b \in RelsOf(g, "TARGETS") :
                    b.to.label = "Function" /\ b.to.project_id = project_id}
        paths == {ab \in outs \X tgts : ab[1].to = ab[2].from}
    IN [g EXCEPT !.edges = @ \cup
            {Rel("DEPENDS_ON_SYMBOL", ab[1].from, ab[2].to) : ab \in paths}]

\* _resolve_calls with rule 3 run before rules 1 and 2.
resolve_calls_derive_first(g, project_id) ==
    StitchEndpoints(ResolveByName(DeriveDependencies(g, project_id), project_id),
                    project_id)

\* GraphManager._resolve_calls
resolve_calls(g, project_id) ==
    DeriveDependencies(StitchEndpoints(ResolveByName(g, project_id), project_id),
                       project_id)

\* GraphManager.link_calls_to_definitions, of the manager of project_id
link_calls_to_definitions(g, project_id) == resolve_calls(g, project_id)

\* ------------------------------------------------------------ impact query

\* LIMIT 100
ResultLimit == 100

\* The query without its project_id conditions.
AffectedRowsOfAnyProject(g, project_id, filename) ==
    LET deps == {d \in RelsOf(g, "DEPENDS_ON_SYMBOL") :
                    IsSymbol(d.to) /\ d.to.filename = filename}
        owns == {o \in RelsOf(g, "CONTAINS") : o.from.label = "File"}
        matches == {m \in deps \X owns : m[2].to = m[1].from}
    IN {[affected_file   |-> m[2].from.name,
         affected_symbol |-> m[1].from.name,
         affected_line   |-> Prop(g, m[1].from, "line"),
         caller_labels   |-> {m[1].from.label},
         dependency_name |-> m[1].to.name,
         dependency_line |-> Prop(g, m[1].to, "line"),
         target_labels   |-> {m[1].to.label}] : m \in matches}

\* The rows of the query before LIMIT (RETURN DISTINCT makes them a set).
AffectedRows(g, project_id, filename) ==
    LET deps == {d \in RelsOf(g, "DEPENDS_ON_SYMBOL") :
                    /\ IsSymbol(d.to)
                    /\ d.to.filename = filename
                    /\ d.to.project_id = project_id
                    /\ d.from.project_id = project_id}
        owns == {o \in RelsOf(g, "CONTAINS") :
                    o.from.label = "File" /\ o.from.project_id = project_id}
        matches == {m \in deps \X owns : m[2].to = m[1].from}
    IN {[affected_file   |-> m[2].from.name,
         affected_symbol |-> m[1].from.name,
         affected_line   |-> Prop(g, m[1].from, "line"),
         caller_labels   |-> {m[1].from.label},
         dependency_name |-> m[1].to.name,
         dependency_line |-> Prop(g, m[1].to, "line"),
         target_labels   |-> {m[1].to.label}] : m \in matches}

\* The sets of k elements of S left out of it.
RECURSIVE Without(_, _)
Without(S, k) ==
    IF k = 0 THEN {S}
    ELSE UNION {Without(S \ {x}, k - 1) : x \in S}

\* The query without LIMIT.
NoLimit(rows, n) == {rows}

\* LIMIT n keeps any n of the rows when there are more.
Limit(rows, n) ==
    IF Cardinality(rows) <= n THEN {rows} ELSE Without(rows, Cardinality(rows) - n)

\* The dictionary appended to impacts for one row.
Impact(row) ==
    [file            |-> row.affected_file,
     symbol          |-> row.affected_symbol,
     symbol_type     |-> IF "Function" \in row.caller_labels THEN "function"
                         ELSE IF "Class" \in row.caller_labels THEN "class"
                         ELSE "unknown",
     line_number     |-> row.affected_line,
     depends_on      |-> row.dependency_name,
     depends_on_type |-> IF "Function" \in row.target_labels THEN "function"
                         ELSE IF "Class" \in row.target_labels THEN "class"
                         ELSE "unknown",
     depends_on_line |-> row.dependency_line]

\* ImpactEngine.find_affected_nodes: the row sets the query may answer with;
\* the list returned holds Impact(row) for each row of the answer.
find_affected_nodes(g, project_id, filename) ==
    Limit(AffectedRows(g, project_id, filename), ResultLimit)

\* ----------------------------------------------------------------- actions

Init ==
    /\ graph = EmptyGraph
    /\ ingested = {}
    /\ repositories = {}
    /\ connections = {}
    /\ crawl = None
    /\ parse = None
    /\ registry = None
    /\ transactions = None

\* ingestFile(project_id, analysis_result)
IngestFile(project_id, analysis_result) ==
    /\ Cardinality(ingested \cup {<<project_id, analysis_result>>}) <= MaxIngest
    /\ graph' = update_file_structure(graph, project_id, analysis_result)
    /\ ingested' = ingested \cup {<<project_id, analysis_result>>}
    /\ UNCHANGED outside

\* resolve(project_id)
Resolve(project_id) ==
    /\ graph' = link_calls_to_definitions(graph, project_id)
    /\ UNCHANGED <<ingested, outside>>

Next ==
    \/ \E p \in Projects, r \in FileRecords : IngestFile(p, r)
    \/ \E p \in Projects : Resolve(p)

Spec == Init /\ [][Next]_vars

\* ------------------------------------------- specification of the result cap

\* The file every function of the crawled repository depends on.
TargetRecord ==
    [filename |-> "utils.py",
     data |-> Parsed(<<Definition("function", "helper", 1)>>, <<>>)]

CallerName(i) == "caller_" \o ToString(i)

\* The j-th file of callers: k functions, each calling helper once.
CallerRecord(j, k) ==
    [filename |-> "caller_" \o ToString(j) \o ".py",
     data |-> Parsed([i \in 1..k |-> Definition("function", CallerName(i), 2 * i - 1)],
                     [i \in 1..k |-> Call("helper", Some(CallerName(i)), 2 * i)])]

FullFiles == ResultLimit \div CallersPerFile

SingleFiles == ResultLimit - FullFiles * CallersPerFile + MaxOver

\* files_data of a repository whose functions all call helper: utils.py,
\* FullFiles files of CallersPerFile callers, then files of one caller, so
\* that helper has ResultLimit + MaxOver dependents in all.
files_data ==
    <<TargetRecord>>
        \o [j \in 1..FullFiles |-> CallerRecord(j, CallersPerFile)]
        \o [j \in 1..SingleFiles |-> CallerRecord(FullFiles + j, 1)]

\* One iteration of `for file_analysis in files_data:
\* graph.update_file_structure(file_analysis)`, each call its own
\* transaction; the loop is at the file after those already ingested.
IngestNext(project_id) ==
    LET i == Cardinality(ingested) + 1
    IN /\ i <= Len(files_data)
       /\ graph' = update_file_structure(graph, project_id, files_data[i])
       /\ ingested' = ingested \cup {<<project_id, files_data[i]>>}
       /\ UNCHANGED outside

NextCap ==
    \/ IngestNext("p1")
    \/ Resolve("p1")

\* One project crawling a repository with more than ResultLimit dependents
\* of one file, resolving at any point of the crawl.
SpecCap == Init /\ [][NextCap]_vars

\* ------------------------------------------------- a file that is edited

\* The records of main.py as it is edited and ingested again: helper() called
\* from main; the same call site inside other once the two functions have
\* changed places; a record whose call names a parent it does not define; a
\* class main; a call on a line before its parent's; utils.py; and api.py,
\* an endpoint with a main of its own.
EditRecords ==
    { [filename |-> "main.py",
       data |-> Parsed(<<Definition("function", "main", 1),
                         Definition("function", "other", 4)>>,
                       <<Call("helper", Some("main"), 2)>>)],
      [filename |-> "main.py",
       data |-> Parsed(<<Definition("function", "other", 1),
                         Definition("function", "main", 4)>>,
                       <<Call("helper", Some("other"), 2)>>)],
      [filename |-> "main.py",
       data |-> Parsed(<<>>, <<Call("helper", Some("gone"), 7)>>)],
      [filename |-> "main.py",
       data |-> Parsed(<<Definition("class", "main", 1)>>,
                       <<Call("helper", Some("main"), 2)>>)],
      [filename |-> "main.py",
       data |-> Parsed(<<Definition("function", "late", 9)>>,
                       <<Call("helper", Some("late"), 3)>>)],
      [filename |-> "utils.py",
       data |-> Parsed(<<Definition("function", "helper", 1)>>, <<>>)],
      [filename |-> "api.py",
       data |-> Parsed(<<Definition("function", "get_user", 10),
                         Definition("function", "main", 20)>>,
                       <<Call("main", Some("get_user"), 11),
                         Call("get", None, 12)>>)] }

NextEdit ==
    \/ \E p \in Projects, r \in EditRecords : IngestFile(p, r)
    \/ \E p \in Projects : Resolve(p)

\* Projects whose file main.py is ingested again after each edit.
SpecEdit == Init /\ [][NextEdit]_vars

\* ------------------------------------------------ concurrent transactions

\* The sessions writing to the store at the same time.
Sessions == {"s1", "s2", "s3"}

\* The records ingested concurrently: api.py before and after get_user is
\* renamed and its get() moved into the function, and main.py with main as
\* a function and as a class.
ConcurrentRecords ==
    { [filename |-> "api.py",
       data |-> Parsed(<<Definition("function", "get_user", 10)>>,
                       <<Call("main", Some("get_user"), 11),
                         Call("get", None, 12)>>)],
      [filename |-> "api.py",
       data |-> Parsed(<<Definition("function", "fetch_user", 10)>>,
                       <<Call("main", Some("fetch_user"), 11),
                         Call("get", Some("fetch_user"), 12)>>)],
      [filename |-> "main.py",
       data |-> Parsed(<<Definition("function", "main", 1)>>,
                       <<Call("helper", Some("main"), 2)>>)],
      [filename |-> "main.py",
       data |-> Parsed(<<Definition("class", "main", 1)>>,
                       <<Call("helper", Some("main"), 2)>>)] }

\* The statements with the loop over the calls run before the loop over the
\* definitions.
IngestStatementsCallsFirst(data) ==
    LET of_call(call) ==
            <<[run |-> "call_node", call |-> call],
              [run |-> "call_file", call |-> call]>>
            \o (IF call.parent = None \/ call.parent = Some("") THEN <<>>
                ELSE <<[run |-> "call_parent", call |-> call]>>)
        calls[i \in 0..Len(data.calls)] ==
            IF i = 0 THEN <<>> ELSE calls[i - 1] \o of_call(data.calls[i])
    IN <<[run |-> "file"]>>
        \o calls[Len(data.calls)]
        \o [i \in 1..Len(data.definitions) |->
               [run |-> "definition", definition |-> data.definitions[i]]]

\* The tx.run calls of _create_structure for the data, in program order.
IngestStatements(data) ==
    LET of_call(call) ==
            <<[run |-> "call_node", call |-> call],
              [run |-> "call_file", call |-> call]>>
            \o (IF call.parent = None \/ call.parent = Some("") THEN <<>>
                ELSE <<[run |-> "call_parent", call |-> call]>>)
        calls[i \in 0..Len(data.calls)] ==
            IF i = 0 THEN <<>> ELSE calls[i - 1] \o of_call(data.calls[i])
    IN <<[run |-> "file"]>>
        \o [i \in 1..Len(data.definitions) |->
               [run |-> "definition", definition |-> data.definitions[i]]]
        \o calls[Len(data.calls)]

\* The three tx.run calls of _resolve_calls.
ResolveStatements == <<[run |-> "by_name"], [run |-> "endpoints"], [run |-> "derive"]>>

\* One tx.run of a transaction on the graph.
Run(g, statement, filename, project_id) ==
    CASE statement.run = "file" -> MergeFile(g, filename, project_id)
      [] statement.run = "definition" ->
             MergeDefinition(g, statement.definition, filename, project_id)
      [] statement.run = "call_node" ->
             MergeCallNode(g, statement.call, filename, project_id)
      [] statement.run = "call_file" ->
             LinkCallToFile(g, statement.call, filename, project_id)
      [] statement.run = "call_parent" ->
             LinkCallToParent(g, statement.call, filename, project_id)
      [] statement.run = "by_name" -> ResolveByName(g, project_id)
      [] statement.run = "endpoints" -> StitchEndpoints(g, project_id)
      [] statement.run = "derive" -> DeriveDependencies(g, project_id)

\* A session's transaction before its first statement.
Transaction(op, analysis_result) ==
    [op |-> op, analysis_result |-> analysis_result, pc |-> 1]

\* Every session has a transaction to run on project p1: the ingestion of a
\* record or a resolve.
InitConcurrent ==
    /\ graph = EmptyGraph
    /\ ingested = {}
    /\ repositories = {}
    /\ connections = {}
    /\ crawl = None
    /\ parse = None
    /\ registry = None
    /\ transactions \in
          [Sessions -> {Transaction("ingest", <<r>>) : r \in ConcurrentRecords}
                          \cup {Transaction("resolve", <<>>)}]

\* The next tx.run of update_file_structure in the session; each statement
\* is atomic and the other sessions see what it wrote.
IngestStep(session) ==
    LET t == transactions[session]
        analysis_result == t.analysis_result[1]
        statements == IngestStatements(analysis_result.data)
    IN /\ t.op = "ingest"
       /\ t.pc <= Len(statements)
       /\ graph' = Run(graph, statements[t.pc], analysis_result.filename, "p1")
       /\ transactions' = [transactions EXCEPT ![session].pc = @ + 1]
       /\ ingested' = IF t.pc = Len(statements)
                      THEN ingested \cup {<<"p1", analysis_result>>}
                      ELSE ingested
       /\ UNCHANGED <<repositories, connections, extraction, registry>>

\* The next tx.run of link_calls_to_definitions in the session.
ResolveStep(session) ==
    LET t == transactions[session]
    IN /\ t.op = "resolve"
       /\ t.pc <= Len(ResolveStatements)
       /\ graph' = Run(graph, ResolveStatements[t.pc], "", "p1")
       /\ transactions' = [transactions EXCEPT ![session].pc = @ + 1]
       /\ UNCHANGED <<ingested, repositories, connections, extraction, registry>>

NextConcurrent ==
    \/ \E session \in Sessions : IngestStep(session)
    \/ \E session \in Sessions : ResolveStep(session)

\* Ingestions and resolves of one project interleaved statement by
\* statement.
SpecConcurrent == InitConcurrent /\ [][NextConcurrent]_vars

\* ------------------------------------- clearing, repositories, connections

\* Rows of repo_connections created in one behaviour.
MaxConnections == 1

\* repo_url.rstrip("/").split("/")[-1].replace(".git", "") of the URLs
\* added: repositories named like the module they hold.
RepoNames == {"utils", "main"}

\* The ids (uuid) a repository row may get.
RepoIds == {"r1", "r2"}

\* The label of a ConnectionCreate body (Optional, "depends_on" when absent).
Labels == {None, Some("uses")}

Repository(id, project_id, repo_name, status) ==
    [id |-> id, project_id |-> project_id, repo_name |-> repo_name, status |-> status]

\* crud.get_repository
get_repository(repo_id) == {r \in repositories : r.id = repo_id}

\* MATCH (n) DETACH DELETE n in place of the query scoped to the project.
clear_everything(g, project_id) == EmptyGraph

\* MATCH (n {project_id: $project_id}) DETACH DELETE n
clear_project(g, project_id) ==
    LET gone == {n \in g.nodes : n.project_id = project_id}
    IN [nodes |-> g.nodes \ gone,
        props |-> {t \in g.props : t.node \notin gone},
        edges |-> {e \in g.edges : e.from \notin gone /\ e.to \notin gone}]

\* DELETE /clear-graph: `if project_id:` clears the project, else the graph.
ClearGraph(project_id) ==
    /\ graph' = IF project_id = None \/ project_id = Some("")
                THEN EmptyGraph
                ELSE clear_project(graph, project_id[1])
    /\ UNCHANGED <<ingested, repositories, connections, extraction, requests>>

\* POST repositories: a row with a fresh id, status pending.
AddRepository(project_id, repo_name) ==
    \E id \in RepoIds :
        /\ get_repository(id) = {}
        /\ \A c \in connections : id \notin {c.source_repo_id, c.target_repo_id}
        /\ repositories' = repositories \cup
                               {Repository(id, project_id, repo_name, "pending")}
        /\ UNCHANGED <<graph, ingested, connections, extraction, requests>>

\* utils_analysis and main_analysis: the files the repositories hold.
StoreRecords ==
    { [filename |-> "utils.py",
       data |-> Parsed(<<Definition("function", "helper", 1)>>, <<>>)],
      [filename |-> "main.py",
       data |-> Parsed(<<Definition("function", "main", 1)>>,
                       <<Call("helper", Some("main"), 2)>>)] }

\* setup.py of a repository: every repository holds one at its root.
SetupRecord(repo_name) ==
    [filename |-> "setup.py",
     data |-> Parsed(<<Definition("function", "setup_" \o repo_name, 1)>>, <<>>)]

\* What discover_and_parse finds in the clone of the repository: the module
\* it is named after and its setup.py, filenames relative to the clone root.
CloneRecords(repo_name) ==
    {r \in StoreRecords : StartsWith(r.filename, repo_name)}
        \cup {SetupRecord(repo_name)}

\* update_repo_status
update_repo_status(repo, status) ==
    (repositories \ {repo}) \cup {[repo EXCEPT !.status = status]}

\* process-all queues _process_single_repo for a pending or failed row.  The
\* task clones, parses, ingests files_data file by file and links; an
\* exception ends it after the first k files were ingested (k = 0 when the
\* clone or the crawl fails), without the link, and sets status error.
ProcessRepo(repo_id) ==
    \E repo \in get_repository(repo_id) :
    \E files \in Orders(CloneRecords(repo.repo_name)) :
    \E k \in 0..Len(files) :
        LET done == SubSeq(files, 1, k)
            g == IngestAll(graph, repo.project_id, done)
        IN /\ repo.status \in {"pending", "error"}
           /\ graph' = IF k = Len(files)
                        THEN link_calls_to_definitions(g, repo.project_id)
                        ELSE g
           /\ ingested' = ingested \cup
                              {<<repo.project_id, done[i]>> : i \in 1..k}
           /\ repositories' =
                 update_repo_status(repo, IF k = Len(files) THEN "ready" ELSE "error")
           /\ UNCHANGED <<connections, extraction, requests>>

\* graph.delete_repo_nodes(repo.repo_name): GraphManager has no such method,
\* the AttributeError is caught and printed, the graph stays as it is.
delete_repo_nodes(g, project_id, repo_name) == g

\* DELETE repositories/{repo_id}: 404 when the row is missing, else the graph
\* clean-up and crud.delete_repository; returns status "deleted".
RemoveRepository(project_id, repo_id) ==
    \E repo \in get_repository(repo_id) :
        /\ graph' = delete_repo_nodes(graph, project_id, repo.repo_name)
        /\ repositories' = repositories \ {repo}
        /\ UNCHANGED <<ingested, connections, extraction, requests>>

RelWith(type, from, to, label) ==
    [type |-> type, from |-> from, to |-> to, label |-> label]

\* The pairs when the second MATCH lacks {project_id: $pid}.
ConnectionPairsOfAnyProject(g, project_id, source_prefix, target_prefix) ==
    {st \in g.nodes \X g.nodes :
        /\ st[1].label = "File" /\ st[1].project_id = project_id
        /\ StartsWith(st[1].name, source_prefix)
        /\ st[2].label = "File"
        /\ StartsWith(st[2].name, target_prefix)}

\* MATCH (s:File) ... MATCH (t:File) ... WITH s, t LIMIT 1: the pairs the
\* MERGE may be run for (none when no pair matches).
ConnectionPairs(g, project_id, source_prefix, target_prefix) ==
    {st \in g.nodes \X g.nodes :
        /\ st[1].label = "File" /\ st[1].project_id = project_id
        /\ StartsWith(st[1].name, source_prefix)
        /\ st[2].label = "File" /\ st[2].project_id = project_id
        /\ StartsWith(st[2].name, target_prefix)}

\* MERGE (s)-[:CROSS_REPO_DEPENDS_ON {label: $label}]->(t)
MergeConnection(g, st, label) ==
    [g EXCEPT !.edges = @ \cup
        {RelWith("CROSS_REPO_DEPENDS_ON", st[1], st[2],
                 IF label = None \/ label = Some("") THEN "depends_on" ELSE label[1])}]

\* POST connections: both rows exist and belong to the project; a row of
\* repo_connections, then the cross-repository link of the graph.
CreateConnection(project_id, source_repo_id, target_repo_id, label) ==
    \E source \in get_repository(source_repo_id) :
    \E target \in get_repository(target_repo_id) :
        LET pairs == ConnectionPairs(graph, project_id,
                                     source.repo_name, target.repo_name)
            row == [project_id |-> project_id, source_repo_id |-> source_repo_id,
                    target_repo_id |-> target_repo_id, label |-> label]
        IN /\ source.project_id = project_id /\ target.project_id = project_id
           /\ Cardinality(connections \cup {row}) <= MaxConnections
           /\ connections' = connections \cup {row}
           /\ IF pairs = {} THEN graph' = graph
              ELSE \E st \in pairs : graph' = MergeConnection(graph, st, label)
           /\ UNCHANGED <<ingested, repositories, extraction, requests>>

NextStore ==
    \/ \E p \in Projects, r \in StoreRecords : IngestFile(p, r)
    \/ \E p \in Projects : Resolve(p)
    \/ \E p \in {None} \cup {Some(q) : q \in Projects} : ClearGraph(p)
    \/ \E p \in Projects, n \in RepoNames : AddRepository(p, n)
    \/ \E p \in Projects, a \in RepoIds, b \in RepoIds, l \in Labels :
          CreateConnection(p, a, b, l)

\* The graph store behind the HTTP API: ingestion and resolution, clearing,
\* and the connections between the repositories of a project.
SpecStore == Init /\ [][NextStore]_vars

NextRepos ==
    \/ \E n \in RepoNames : AddRepository("p1", n)
    \/ \E id \in RepoIds : ProcessRepo(id)
    \/ \E p \in Projects, id \in RepoIds : RemoveRepository(p, id)

\* The life of the repositories of one project: added, processed in the
\* background, removed.
SpecRepos == Init /\ [][NextRepos]_vars

\* ---------------------------------------------------------------- the crawl

\* Entries of the directory tree of one crawl.
MaxEntries == 2

EXCLUDED_DIRS ==
    { ".git", ".svn", ".hg",
      "__pycache__", ".mypy_cache", ".pytest_cache", ".tox",
      "venv", "env", ".env", ".venv", "ai_env", "syncrup_env",
      "*.egg-info",
      "node_modules", "bower_components",
      "dist", "build", "out", "_build",
      ".next", ".nuxt", ".cache", ".parcel-cache", ".turbo",
      ".vscode", ".idea", ".fleet",
      "coverage", "htmlcov", ".nyc_output",
      ".terraform", ".gradle", "target", "vendor",
      ".docker", ".devcontainer" }

EXCLUDED_FILE_EXTENSIONS ==
    { ".pyc", ".pyo", ".pyd",
      ".so", ".dll", ".dylib",
      ".zip", ".tar", ".gz", ".bz2", ".rar", ".7z",
      ".png", ".jpg", ".jpeg", ".gif", ".ico", ".svg", ".bmp", ".webp",
      ".woff", ".woff2", ".ttf", ".eot", ".otf",
      ".db", ".sqlite", ".sqlite3", ".pkl", ".h5", ".hdf5",
      ".pdf", ".doc", ".docx", ".xls", ".xlsx",
      ".min.js", ".map", ".lock" }

EXCLUDED_FILES ==
    { "package-lock.json", "yarn.lock", "pnpm-lock.yaml", ".DS_Store",
      "Thumbs.db", "desktop.ini", ".gitkeep", ".npmrc", ".yarnrc" }

\* ext_to_worker, as the set of its (extension, worker key) pairs
ext_to_worker == { <<".py", "python">>, <<".ts", "typescript">>, <<".js", "typescript">> }

\* WORKER_URLS: the workers the services are configured with.
worker_urls == {"python", "typescript"}

\* An entry rglob yields: the parts of its path relative to the root, and
\* whether it is a regular file.
Entry(parts, is_file) == [parts |-> parts, is_file |-> is_file]

Entries ==
    { Entry(<<"src", "x.py">>, TRUE),
      Entry(<<"build", "x.py">>, TRUE),
      Entry(<<"gen", "x.py">>, TRUE),
      Entry(<<"src", "a.ts">>, TRUE),
      Entry(<<"src", "b.tsx">>, TRUE),
      Entry(<<"web", "c.js">>, TRUE),
      Entry(<<"web", "lib.min.js">>, TRUE),
      Entry(<<"node_modules", "m.js">>, TRUE),
      Entry(<<"README.md">>, TRUE),
      Entry(<<"stubs.py">>, FALSE) }

\* The .gitignore of the root: none, one that cannot be read, or its lines.
Gitignores == { "absent", "unreadable", "lines" }

GitignoreLines == {"build/", "gen/"}

\* path.name
PathName(parts) == parts[Len(parts)]

\* The index of the last "." of the name, 0 when it has none.
LastDot(name) ==
    LET dots == {i \in 1..Len(name) : SubSeq(name, i, i) = "."}
    IN IF dots = {} THEN 0 ELSE CHOOSE i \in dots : \A j \in dots : j <= i

\* path.suffix: from the last dot of the name, empty when the name has no
\* dot, starts with its only dot or ends with a dot.
Suffix(parts) ==
    LET name == PathName(parts)
        i == LastDot(name)
    IN IF i <= 1 \/ i = Len(name) THEN "" ELSE SubSeq(name, i, Len(name))

\* str.lower() on ASCII letters
Lower(str) ==
    LET upper == "ABCDEFGHIJKLMNOPQRSTUVWXYZ"
        lower == "abcdefghijklmnopqrstuvwxyz"
        ch(i) == LET c == SubSeq(str, i, i)
                     ks == {k \in 1..26 : SubSeq(upper, k, k) = c}
                 IN IF ks = {} THEN c
                    ELSE LET k == CHOOSE k \in ks : TRUE IN SubSeq(lower, k, k)
        low[i \in 0..Len(str)] == IF i = 0 THEN "" ELSE low[i - 1] \o ch(i)
    IN low[Len(str)]

\* str(path.relative_to(self.project_root)) with "/" between the parts
RelativeName(parts) ==
    LET join[i \in 1..Len(parts)] ==
            IF i = 1 THEN parts[1] ELSE join[i - 1] \o "/" \o parts[i]
    IN join[Len(parts)]

\* _load_gitignore: the PathSpec of the lines, None when there is no
\* .gitignore or reading it raises.
load_gitignore(gitignore) ==
    IF gitignore = "lines" THEN Some(GitignoreLines) ELSE None

\* PathSpec.match_file for the two shapes of line in use: "name/" matches a
\* path below a directory called name, "name" a path with a part called name.
match_file(lines, parts) ==
    \E line \in lines :
        IF SubSeq(line, Len(line), Len(line)) = "/"
        THEN \E i \in 1..(Len(parts) - 1) :
                parts[i] = SubSeq(line, 1, Len(line) - 1)
        ELSE \E i \in 1..Len(parts) : parts[i] = line

\* _should_exclude with its first check left out.
should_exclude_gitignore_only(parts, gitignore_spec) ==
    \/ PathName(parts) \in EXCLUDED_FILES
    \/ Lower(Suffix(parts)) \in EXCLUDED_FILE_EXTENSIONS
    \/ gitignore_spec # None /\ match_file(gitignore_spec[1], parts)

\* CodeDiscovery._should_exclude
should_exclude(parts, gitignore_spec) ==
    \/ \E i \in 1..Len(parts) : parts[i] \in EXCLUDED_DIRS
    \/ PathName(parts) \in EXCLUDED_FILES
    \/ Lower(Suffix(parts)) \in EXCLUDED_FILE_EXTENSIONS
    \/ gitignore_spec # None /\ match_file(gitignore_spec[1], parts)

\* What happens to a file sent to a worker: a 200 response, another status,
\* or an exception (the file cannot be read, the worker cannot be reached).
Outcomes == {"ok", "error_status", "exception"}

\* The body of a worker's 200 response.
WorkerResponse(parts) ==
    [status |-> "success", filename |-> RelativeName(parts),
     data |-> Parsed(<<>>, <<>>)]

\* _send_to_worker returning the body whatever the status code.
send_to_worker_any_status(parts, outcome) ==
    IF outcome = "exception" THEN None ELSE Some(WorkerResponse(parts))

\* CodeDiscovery._send_to_worker: the response body, or None
send_to_worker(parts, outcome) ==
    IF outcome = "ok" THEN Some(WorkerResponse(parts)) ELSE None

\* CodeDiscovery(project_root, worker_urls) on a tree, before the loop of
\* discover_and_parse; sent records the requests made to the workers.
NewCrawl(tree, gitignore) ==
    [tree |-> tree, gitignore |-> gitignore,
     gitignore_spec |-> load_gitignore(gitignore),
     pending |-> tree, results |-> <<>>, skipped_count |-> 0, sent |-> {}]

InitCrawl ==
    /\ graph = EmptyGraph
    /\ ingested = {}
    /\ repositories = {}
    /\ connections = {}
    /\ parse = None
    /\ registry = None
    /\ transactions = None
    /\ \E tree \in SUBSET Entries : \E gitignore \in Gitignores :
          /\ Cardinality(tree) <= MaxEntries
          /\ crawl = NewCrawl(tree, gitignore)

\* One iteration of `for path in self.project_root.rglob("*")`.
Visit(entry, outcome) ==
    /\ entry \in crawl.pending
    /\ LET rest == [crawl EXCEPT !.pending = @ \ {entry}]
           routes == {r \in ext_to_worker : r[1] = Suffix(entry.parts)}
       IN crawl' =
            IF ~entry.is_file THEN rest
            ELSE IF routes = {} THEN rest
            ELSE IF should_exclude(entry.parts, crawl.gitignore_spec)
                 THEN [rest EXCEPT !.skipped_count = @ + 1]
            ELSE LET worker_key == (CHOOSE r \in routes : TRUE)[2]
                     file_results == send_to_worker(entry.parts, outcome)
                 IN IF worker_key \notin worker_urls THEN rest
                    ELSE [rest EXCEPT
                            !.sent = @ \cup {[parts |-> entry.parts,
                                              worker |-> worker_key,
                                              outcome |-> outcome]},
                            !.results = IF file_results = None THEN @
                                        ELSE Append(@, file_results[1])]
    /\ UNCHANGED <<graph, ingested, repositories, connections, parse, requests>>

NextCrawl == \E entry \in Entries, outcome \in Outcomes : Visit(entry, outcome)

\* discover_and_parse over every small tree, with or without a .gitignore.
SpecCrawl == InitCrawl /\ [][NextCrawl]_vars

\* ----------------------------------------------------------- the extractors

\* A node of a tree-sitter syntax tree: its type, the text of its `name` and
\* `function` fields (None when it has no such child), its own text, its
\* line (start_point[0] + 1) and its children.
Node(type, name, function, text, line, children) ==
    [type |-> type, name |-> name, function |-> function, text |-> text,
     line |-> line, children |-> children]

Identifier(text, line) == Node("identifier", None, None, text, line, <<>>)

\* results of parse_code before the traversal
EmptyResults == [definitions |-> <<>>, calls |-> <<>>, imports |-> <<>>]

\* PythonParser._traverse
RECURSIVE PythonTraverse(_, _, _)
PythonTraverse(node, results, parent_symbol) ==
    LET named == node.name # None
        here ==
            IF node.type = "function_definition"
            THEN IF named
                 THEN [results EXCEPT !.definitions =
                          Append(@, Definition("function", node.name[1], node.line))]
                 ELSE results
            ELSE IF node.type = "class_definition"
            THEN IF named
                 THEN [results EXCEPT !.definitions =
                          Append(@, Definition("class", node.name[1], node.line))]
                 ELSE results
            ELSE IF node.type = "call"
            THEN IF node.function # None
                 THEN [results EXCEPT !.calls =
                          Append(@, Call(node.function[1], parent_symbol, node.line))]
                 ELSE results
            ELSE IF node.type \in {"import_from_statement", "import_statement"}
            THEN [results EXCEPT !.imports =
                     Append(@, [content |-> node.text, line |-> node.line])]
            ELSE results
        current_symbol ==
            IF node.type \in {"function_definition", "class_definition"} /\ named
            THEN Some(node.name[1]) ELSE parent_symbol
        over[i \in 0..Len(node.children)] ==
            IF i = 0 THEN here
            ELSE PythonTraverse(node.children[i], over[i - 1], current_symbol)
    IN over[Len(node.children)]

\* TypeScriptParser._traverse
RECURSIVE TypeScriptTraverse(_, _, _)
TypeScriptTraverse(node, results, parent_symbol) ==
    LET named == node.name # None
        here ==
            IF node.type \in {"function_declaration", "method_definition",
                              "arrow_function"}
            THEN IF named
                 THEN [results EXCEPT !.definitions =
                          Append(@, Definition("function", node.name[1], node.line))]
                 ELSE results
            ELSE IF node.type = "class_declaration"
            THEN IF named
                 THEN [results EXCEPT !.definitions =
                          Append(@, Definition("class", node.name[1], node.line))]
                 ELSE results
            ELSE IF node.type = "call_expression"
            THEN IF node.function # None
                 THEN [results EXCEPT !.calls =
                          Append(@, Call(node.function[1], parent_symbol, node.line))]
                 ELSE results
            ELSE IF node.type \in {"identifier", "property_identifier"}
            THEN IF parent_symbol # None /\ parent_symbol # Some("")
                 THEN [results EXCEPT !.calls =
                          Append(@, [name |-> node.text, type |-> "reference",
                                     parent |-> parent_symbol, line |-> node.line])]
                 ELSE results
            ELSE IF node.type = "import_statement"
            THEN [results EXCEPT !.imports =
                     Append(@, [content |-> node.text, line |-> node.line])]
            ELSE results
        current_symbol ==
            IF /\ node.type \in {"function_declaration", "method_definition",
                                 "arrow_function", "class_declaration"}
               /\ named
            THEN Some(node.name[1]) ELSE parent_symbol
        over[i \in 0..Len(node.children)] ==
            IF i = 0 THEN here
            ELSE TypeScriptTraverse(node.children[i], over[i - 1], current_symbol)
    IN over[Len(node.children)]

\* PythonParser.parse_code, from the root node of the parsed tree
python_parse_code(root_node) == PythonTraverse(root_node, EmptyResults, None)

\* TypeScriptParser.parse_code, from the root node of the parsed tree
typescript_parse_code(root_node) == TypeScriptTraverse(root_node, EmptyResults, None)

\* The node types a tree of each grammar wraps a statement in: definitions,
\* an anonymous function, a plain block; "" for no wrapper.
Wrappers(language) ==
    IF language = "python"
    THEN {"", "function_definition", "class_definition", "lambda", "block"}
    ELSE {"", "function_declaration", "generator_function_declaration",
          "method_definition", "class_declaration", "abstract_class_declaration",
          "arrow_function", "statement_block"}

\* The node types of a grammar that have a `name` field.
NamedTypes ==
    {"function_definition", "class_definition",
     "function_declaration", "generator_function_declaration",
     "method_definition", "class_declaration", "abstract_class_declaration"}

\* The type of the node in the `name` field of a definition: a class is
\* named by a type_identifier and a method by a property_identifier in the
\* TypeScript grammar, everything else by an identifier.
NameNodeType(type) ==
    IF type \in {"class_declaration", "abstract_class_declaration"}
    THEN "type_identifier"
    ELSE IF type = "method_definition" THEN "property_identifier"
    ELSE "identifier"

\* `body` wrapped in a node of the type; a named node holds the node of its
\* name as a child before the body.
Wrap(type, name, line, body) ==
    IF type = "" THEN body
    ELSE IF type \in NamedTypes
    THEN <<Node(type, Some(name), None, name, line,
                <<Node(NameNodeType(type), None, None, name, line, <<>>)>>
                    \o body)>>
    ELSE <<Node(type, None, None, "", line, body)>>

\* The call work() on the line, with the identifier of its function.
CallOf(language, text, line) ==
    Node(IF language = "python" THEN "call" ELSE "call_expression",
         None, Some(text), text \o "()", line, <<Identifier(text, line)>>)

\* A module: work() inside two wrappers, then init() at module scope.
Tree(language, first, second) ==
    Node(IF language = "python" THEN "module" ELSE "program", None, None, "", 1,
         Wrap(first, "outer", 2,
              Wrap(second, "inner", 3, <<CallOf(language, "work", 4)>>))
           \o <<CallOf(language, "init", 9)>>)

Languages == {"python", "typescript"}

InitParse ==
    /\ graph = EmptyGraph
    /\ ingested = {}
    /\ repositories = {}
    /\ connections = {}
    /\ crawl = None
    /\ registry = None
    /\ transactions = None
    /\ \E language \in Languages :
       \E first \in Wrappers(language), second \in Wrappers(language) :
          parse = [language |-> language,
                   root_node |-> Tree(language, first, second),
                   results |-> None]

\* POST /parse of the Python worker
PythonParse ==
    /\ parse.language = "python" /\ parse.results = None
    /\ parse' = [parse EXCEPT !.results = Some(python_parse_code(parse.root_node))]
    /\ UNCHANGED <<graph, ingested, repositories, connections, crawl, requests>>

\* POST /parse of the TypeScript worker
TypeScriptParse ==
    /\ parse.language = "typescript" /\ parse.results = None
    /\ parse' = [parse EXCEPT !.results =
                    Some(typescript_parse_code(parse.root_node))]
    /\ UNCHANGED <<graph, ingested, repositories, connections, crawl, requests>>

NextParse == PythonParse \/ TypeScriptParse

\* The two extractors over the syntax trees of the catalogue.
SpecParse == InitParse /\ [][NextParse]_vars

\* The filename a file of the language is parsed and ingested under.
SourceName(language) == IF language = "python" THEN "main.py" ELSE "app.ts"

\* graph.update_file_structure(file_analysis) for the response of the worker
\* ({"status", "filename", "data"}), under project p1.
IngestParsed ==
    /\ parse.results # None
    /\ ingested = {}
    /\ LET file_analysis == [filename |-> SourceName(parse.language),
                             data |-> parse.results[1]]
       IN /\ graph' = update_file_structure(graph, "p1", file_analysis)
          /\ ingested' = {<<"p1", file_analysis>>}
    /\ UNCHANGED outside

NextPipeline ==
    \/ PythonParse
    \/ TypeScriptParse
    \/ IngestParsed
    \/ Resolve("p1")

\* One file through the pipeline: extracted, ingested, resolved.
SpecPipeline == InitParse /\ [][NextPipeline]_vars

\* ------------------------------------------------------ the entry points

\* os.sep of the host the services run on: posix or Windows.
Separators == {"/", "\\"}

\* The project every entry point works on here (the one the CLI uses).
EntryProject == "default"

\* The source files a project root may hold, as the parts of their paths
\* below the root.
SourceFiles == { <<"main.py">>, <<"src", "utils.py">> }

\* What the worker extracts from the file.
SourceData(parts) ==
    IF PathName(parts) = "utils.py"
    THEN Parsed(<<Definition("function", "helper", 1)>>, <<>>)
    ELSE Parsed(<<Definition("function", "main", 1)>>,
                <<Call("helper", Some("main"), 2)>>)

\* str(path) of a relative path on the host
JoinPath(parts, sep) ==
    LET join[i \in 1..Len(parts)] ==
            IF i = 1 THEN parts[1] ELSE join[i - 1] \o sep \o parts[i]
    IN join[Len(parts)]

\* str.replace(old, new) for one-character strings
ReplaceChar(str, old, new) ==
    LET out[i \in 0..Len(str)] ==
            IF i = 0 THEN ""
            ELSE out[i - 1] \o (IF SubSeq(str, i, i) = old THEN new
                                ELSE SubSeq(str, i, i))
    IN out[Len(str)]

\* Path(str).parts on the host: posix splits at "/", Windows at "/" and "\".
SplitPath(str, sep) ==
    LET at == IF sep = "\\" THEN {"/", "\\"} ELSE {"/"}
        split[i \in 0..Len(str)] ==
            IF i = 0 THEN <<"">>
            ELSE LET done == split[i - 1]
                     c == SubSeq(str, i, i)
                 IN IF c \in at THEN Append(done, "")
                    ELSE [done EXCEPT ![Len(done)] = @ \o c]
    IN split[Len(str)]

\* PathNormalizer.normalize of the path of a file below the root
normalize(parts, sep) == ReplaceChar(JoinPath(parts, sep), "/", "\\")

\* PathNormalizer.to_absolute, as the parts below the root
to_absolute(relative_path, sep) == SplitPath(relative_path, sep)

\* PathNormalizer.exists
exists(parts, sep, tree) == to_absolute(normalize(parts, sep), sep) \in tree

\* os.path.splitext(filename)[1]
splitext(filename, sep) == Suffix(SplitPath(filename, sep))

\* _send_to_worker for a file of the project root: the worker's response,
\* its filename relative to the root in the host's form, or None.
analyse(parts, sep, outcome) ==
    IF outcome = "ok"
    THEN Some([filename |-> JoinPath(parts, sep), data |-> SourceData(parts)])
    ELSE None

\* The registry of a host right after start-up: no project registered yet;
\* tree is what the project root holds.
InitEntry ==
    /\ graph = EmptyGraph
    /\ ingested = {}
    /\ repositories = {}
    /\ connections = {}
    /\ crawl = None
    /\ parse = None
    /\ transactions = None
    /\ \E sep \in Separators : \E tree \in (SUBSET SourceFiles) \ {{}} :
          registry = [sep |-> sep, tree |-> tree, crawled |-> {}, checks |-> {}]

\* POST /initialize: register the project, clear its graph, ingest what the
\* crawl returns and link; an exception after k files ends it with a 500.
Initialize ==
    \E files \in Orders(registry.tree) : \E k \in 0..Len(files) :
        LET analysed == [i \in 1..k |-> analyse(files[i], registry.sep, "ok")[1]]
            g == IngestAll(clear_project(graph, EntryProject), EntryProject,
                           analysed)
        IN /\ graph' = IF k = Len(files)
                        THEN link_calls_to_definitions(g, EntryProject)
                        ELSE g
           /\ ingested' = ingested \cup {<<EntryProject, analysed[i]>> : i \in 1..k}
           /\ registry' = [registry EXCEPT !.crawled = {files[i] : i \in 1..k},
                                           !.checks = {}]
           /\ UNCHANGED <<repositories, connections, extraction, transactions>>

\* One impact check, as kept by the registry of this model: the file, the
\* entry point, the filename it ingested and queried under, whether the
\* worker answered and whether the file was ingested again.
Check(parts, entry, filename, outcome, updated) ==
    [parts |-> parts, entry |-> entry, filename |-> filename,
     outcome |-> outcome, updated |-> updated]

\* POST /check-impact with the absolute path of a file of the project.
CheckImpact(parts, outcome) ==
    LET sep == registry.sep
        normalized_filename == normalize(parts, sep)
        ext == splitext(normalized_filename, sep)
        worker_key == IF ext = ".py" THEN Some("python")
                      ELSE IF ext \in {".ts", ".tsx"} THEN Some("typescript")
                      ELSE None
        parse_it == worker_key # None /\ exists(parts, sep, registry.tree)
        analysis == IF parse_it
                    THEN analyse(to_absolute(normalized_filename, sep), sep, outcome)
                    ELSE None
    IN /\ parts \in registry.tree
       /\ IF analysis # None
          THEN LET renamed == [analysis[1] EXCEPT !.filename = normalized_filename]
               IN /\ graph' = link_calls_to_definitions(
                                  update_file_structure(graph, EntryProject, renamed),
                                  EntryProject)
                  /\ ingested' = ingested \cup {<<EntryProject, renamed>>}
          ELSE UNCHANGED <<graph, ingested>>
       /\ registry' = [registry EXCEPT !.checks = @ \cup
             {Check(parts, "check_impact", normalized_filename, outcome,
                    analysis # None)}]
       /\ UNCHANGED <<repositories, connections, extraction, transactions>>

\* handle_file_change(filename) of the CLI, run in the project root with the
\* relative path of a file typed with "/" or with the host's separator.
HandleFileChange(parts, typed, outcome) ==
    LET sep == registry.sep
        filename == ReplaceChar(JoinPath(parts, typed), "/", sep)
        ext == splitext(filename, sep)
        worker_key == IF ext = ".py" THEN Some("python")
                      ELSE IF ext = ".ts" THEN Some("typescript")
                      ELSE None
        analysis == analyse(parts, sep, outcome)
    IN /\ parts \in registry.tree
       /\ typed \in {"/", sep}
       /\ worker_key # None
       /\ IF analysis # None
          THEN LET renamed == [analysis[1] EXCEPT !.filename = filename]
               IN /\ graph' = link_calls_to_definitions(
                                  update_file_structure(graph, EntryProject, renamed),
                                  EntryProject)
                  /\ ingested' = ingested \cup {<<EntryProject, renamed>>}
                  /\ registry' = [registry EXCEPT !.checks = @ \cup
                        {Check(parts, "handle_file_change", filename, outcome, TRUE)}]
          ELSE UNCHANGED <<graph, ingested, registry>>
       /\ UNCHANGED <<repositories, connections, extraction, transactions>>

NextEntry ==
    \/ Initialize
    \/ \E parts \in SourceFiles, outcome \in Outcomes : CheckImpact(parts, outcome)
    \/ \E parts \in SourceFiles, typed \in Separators, outcome \in Outcomes :
          HandleFileChange(parts, typed, outcome)

\* One project on one host: initialized, then checked file by file through
\* the API and the CLI.
SpecEntry == InitEntry /\ [][NextEntry]_vars

\* ------------------------------------------------------------------ claims

\* The graph of the next state of every operation a manager of project_id
\* can perform now.
AfterOperation(project_id) ==
    {update_file_structure(graph, project_id, r) : r \in FileRecords}
        \cup {link_calls_to_definitions(graph, project_id)}

\* C1: tenant isolation of the impact query.  In every reachable state, no
\* ingestFile and no resolve performed under a project p changes what
\* findAffected answers for another project q, for every filename (the
\* filenames are shared by the projects).
TenantIsolation ==
    \A p \in Projects :
        LET after == AfterOperation(p)
        IN \A q \in Projects \ {p} : \A f \in Files :
              LET before == find_affected_nodes(graph, q, f)
              IN \A g \in after : find_affected_nodes(g, q, f) = before

\* A state where C1's case happens: a project has impact records for a file
\* whose name another project has ingested symbols under.
TenantIsolationWitness ==
    \E p \in Projects : \E q \in Projects \ {p} : \E f \in Files :
        /\ AffectedRows(graph, q, f) # {}
        /\ \E n \in graph.nodes :
              IsSymbol(n) /\ n.filename = f /\ n.project_id = p

\* C2: idempotent ingestion.  From every reachable graph, for every project
\* and file record, ingesting the record a second time right after the first
\* leaves the graph (its nodes, properties and edges) as the first left it.
IdempotentIngestion ==
    \A p \in Projects : \A r \in FileRecords :
        LET once == update_file_structure(graph, p, r)
        IN update_file_structure(once, p, r) = once

\* A state where C2's case happens: a record with a definition and a call
\* attributed to it was ingested, and ingesting it again changes nothing.
IdempotentIngestionWitness ==
    \E pr \in ingested :
        /\ pr[2].data.definitions # <<>> /\ pr[2].data.calls # <<>>
        /\ RelsOf(graph, "CALLS_OUT") # {}
        /\ update_file_structure(graph, pr[1], pr[2]) = graph

\* The records ingested so far under project_id.
IngestedOf(project_id) == {pr[2] : pr \in {x \in ingested : x[1] = project_id}}

Range(seq) == {seq[i] : i \in DOMAIN seq}

\* The record defines a function named h.
DefinesFunction(r, h) ==
    \E d \in Range(r.data.definitions) : d.type = "function" /\ d.name = h

\* The record defines a symbol named m that contains a call named h.
DefinesCaller(r, m, h) ==
    /\ \E d \in Range(r.data.definitions) : d.name = m
    /\ \E c \in Range(r.data.calls) : c.name = h /\ c.parent = Some(m)

\* The answer holds a record with these file, symbol and depends_on.
HasRecord(rows, file, symbol, depends_on) ==
    \E row \in rows :
        /\ Impact(row).file = file
        /\ Impact(row).symbol = symbol
        /\ Impact(row).depends_on = depends_on

\* The two records are all that was ingested under the project.
OnlyTheseTwo(project_id, ra, rb) == IngestedOf(project_id) = {ra, rb}

\* C3: a direct dependency is found.  Whenever two records of distinct files
\* have been ingested under a project, A defining a function h and B a symbol
\* m containing a call named h, then right after resolve findAffected(A) holds
\* a record with file B, symbol m, dependsOn h; and it holds exactly one
\* record when these two records are all the project ingested.
DirectDependencyFound ==
    \A p \in Projects :
        LET g == link_calls_to_definitions(graph, p)
        IN \A ra \in IngestedOf(p) : \A rb \in IngestedOf(p) :
              ra.filename # rb.filename =>
                \A da \in Range(ra.data.definitions) :
                  \A db \in Range(rb.data.definitions) :
                    (DefinesFunction(ra, da.name) /\ DefinesCaller(rb, db.name, da.name)) =>
                      \A rows \in find_affected_nodes(g, p, ra.filename) :
                        /\ HasRecord(rows, rb.filename, db.name, da.name)
                        /\ OnlyTheseTwo(p, ra, rb) => Cardinality(rows) = 1

\* A state where C3's case happens: both files are ingested, resolve has run
\* and the one record is in the answer.
DirectDependencyWitness ==
    \E p \in Projects : \E ra \in IngestedOf(p) : \E rb \in IngestedOf(p) :
        /\ ra.filename # rb.filename
        /\ DefinesFunction(ra, "helper") /\ DefinesCaller(rb, "main", "helper")
        /\ OnlyTheseTwo(p, ra, rb)
        /\ link_calls_to_definitions(graph, p) = graph
        /\ \A rows \in find_affected_nodes(graph, p, ra.filename) :
              HasRecord(rows, rb.filename, "main", "helper") /\ Cardinality(rows) = 1

\* The symbols that reach one of `found` by one or more DEPENDS_ON_SYMBOL
\* edges of `deps`.
RECURSIVE Dependents(_, _)
Dependents(deps, found) ==
    LET more == found \cup {d.from : d \in {e \in deps : e.to \in found}}
    IN IF more = found THEN found ELSE Dependents(deps, more)

\* C4: the blast radius is transitive.  Right after resolve, findAffected(f)
\* holds a record for every symbol of another file of the project that
\* depends on a symbol of f through a chain of one or more DEPENDS_ON_SYMBOL
\* edges (no answer of this model reaches the 100-record cap).
TransitiveBlastRadius ==
    \A p \in Projects : \A f \in Files :
        LET g == link_calls_to_definitions(graph, p)
            deps == {e \in RelsOf(g, "DEPENDS_ON_SYMBOL") : e.to.project_id = p}
            changed == {t \in g.nodes :
                           IsSymbol(t) /\ t.filename = f /\ t.project_id = p}
            direct == {d.from : d \in {e \in deps : e.to \in changed}}
        IN \A rows \in find_affected_nodes(g, p, f) :
              \A s \in {x \in Dependents(deps, direct) : x.filename # f} :
                 \E row \in rows :
                    row.affected_file = s.filename /\ row.affected_symbol = s.name

\* The (file, symbol, dependsOn) triple of an impact record.
Triple(impact) == <<impact.file, impact.symbol, impact.depends_on>>

\* C6: deduplication of impact records.  In every reachable state no answer
\* of findAffected holds two records with the same (file, symbol, dependsOn).
NoDuplicateImpactRecords ==
    \A p \in Projects : \A f \in Files :
        \A rows \in find_affected_nodes(graph, p, f) :
            \A r1 \in rows : \A r2 \in rows :
                Triple(Impact(r1)) = Triple(Impact(r2)) => r1 = r2

\* C7: name resolution.  Right after resolve(p) every Call node of p has a
\* TARGETS edge to every Function node of p of the same name, whatever their
\* files.
NameResolution ==
    \A p \in Projects :
        LET g == link_calls_to_definitions(graph, p)
        IN \A c \in g.nodes : \A f \in g.nodes :
              (/\ c.label = "Call" /\ f.label = "Function"
               /\ c.project_id = p /\ f.project_id = p
               /\ c.name = f.name)
                  => Rel("TARGETS", c, f) \in g.edges

\* A state where C7's case happens: resolve has linked a call to a function
\* of the same name in another file.
NameResolutionWitness ==
    \E e \in RelsOf(graph, "TARGETS") :
        e.from.name = e.to.name /\ e.from.filename # e.to.filename

\* The verbs and the naming convention as C8 states them.
ClaimedVerbs == {"post", "get", "put", "delete", "fetch", "request"}

ClaimedEndpointName(name) ==
    \/ \E prefix \in {"create_", "get_", "update_", "delete_", "api_"} :
          StartsWith(name, prefix)
    \/ Contains(name, "endpoint")

ClaimedStitch(c, f, project_id) ==
    /\ c.label = "Call" /\ f.label = "Function"
    /\ c.project_id = project_id /\ f.project_id = project_id
    /\ c.name \in ClaimedVerbs /\ ClaimedEndpointName(f.name)

\* C8: endpoint stitching.  Right after resolve(p) every Call of p named by
\* an HTTP verb has a CALLS_ENDPOINT and a TARGETS edge to every Function of
\* p with an endpoint-like name, and no CALLS_ENDPOINT edge joins any other
\* pair of nodes.
EndpointStitching ==
    \A p \in Projects :
        LET g == link_calls_to_definitions(graph, p)
        IN /\ \A c \in g.nodes : \A f \in g.nodes :
                 ClaimedStitch(c, f, p) =>
                    /\ Rel("CALLS_ENDPOINT", c, f) \in g.edges
                    /\ Rel("TARGETS", c, f) \in g.edges
           /\ \A e \in RelsOf(g, "CALLS_ENDPOINT") :
                 \E q \in Projects : ClaimedStitch(e.from, e.to, q)

\* A state where C8's case happens: a call named get is linked to get_user
\* of another file by both edges.
EndpointStitchingWitness ==
    \E e \in RelsOf(graph, "CALLS_ENDPOINT") :
        /\ e.from.name = "get" /\ e.to.name = "get_user"
        /\ e.from.filename # e.to.filename
        /\ Rel("TARGETS", e.from, e.to) \in graph.edges

\* A Call node of the project joins s to t by CALLS_OUT then TARGETS.
WitnessingPath(g, s, t, project_id) ==
    \E c \in g.nodes :
        /\ c.label = "Call" /\ c.project_id = project_id
        /\ Rel("CALLS_OUT", s, c) \in g.edges
        /\ Rel("TARGETS", c, t) \in g.edges

\* C9: derived dependency edges.  In every state each DEPENDS_ON_SYMBOL edge
\* has a witnessing path s -CALLS_OUT-> c -TARGETS-> t through a Call of its
\* project, and right after resolve(p) the edge s -> t exists in p exactly
\* when such a path does.
DerivedDependencies ==
    /\ \A e \in RelsOf(graph, "DEPENDS_ON_SYMBOL") :
          WitnessingPath(graph, e.from, e.to, e.from.project_id)
    /\ \A p \in Projects :
          LET g == link_calls_to_definitions(graph, p)
          IN \A s \in g.nodes : \A t \in g.nodes :
                (s.project_id = p /\ t.project_id = p /\ t.label = "Function") =>
                   (Rel("DEPENDS_ON_SYMBOL", s, t) \in g.edges
                       <=> WitnessingPath(g, s, t, p))

\* A state where C9's case happens: resolve has derived an edge from a class
\* and there is a function the class does not depend on.
DerivedDependenciesWitness ==
    \E e \in RelsOf(graph, "DEPENDS_ON_SYMBOL") :
        /\ e.from.label = "Class"
        /\ \E t \in FunctionsOf(graph, e.from.project_id) :
              Rel("DEPENDS_ON_SYMBOL", e.from, t) \notin graph.edges

\* C10: the definition line is stored.  For every record ingested under a
\* project, the Symbol node of each of its definitions carries a line
\* attribute equal to the definition's line.
DefinitionLineStored ==
    \A pr \in ingested : \A d \in Range(pr[2].data.definitions) :
        Prop(graph,
             SymbolNode(IF d.type = "function" THEN "Function" ELSE "Class",
                        d.name, pr[2].filename, pr[1]),
             "line") = Some(d.line)

\* C5: bounded output.  In every graph state an answer of findAffected holds
\* at most 100 records, and exactly 100 when more than 100 distinct (caller
\* file, caller symbol, target symbol) rows qualify for the changed file.
BoundedOutput ==
    \A p \in Projects : \A f \in Files :
        LET qualifying == {Triple(Impact(row)) : row \in AffectedRows(graph, p, f)}
        IN \A rows \in find_affected_nodes(graph, p, f) :
              /\ Cardinality(rows) <= 100
              /\ Cardinality(qualifying) > 100 => Cardinality(rows) = 100

\* A state where C5's case happens: more than 100 rows qualify.
BoundedOutputWitness ==
    Cardinality(AffectedRows(graph, "p1", "utils.py")) > 100

\* C11: symbol identity.  In every reachable state there is at most one
\* Symbol node (Function or Class) for each (name, filename, project_id).
SymbolIdentity ==
    \A a \in graph.nodes : \A b \in graph.nodes :
        (/\ IsSymbol(a) /\ IsSymbol(b)
         /\ a.name = b.name
         /\ a.filename = b.filename
         /\ a.project_id = b.project_id) => a = b

\* C12: tenant tagging.  In every state reachable by ingestion, resolution,
\* clearing and connection creation over the projects, every node carries a
\* project_id and every relationship joins two nodes of one project_id.
TenantTagging ==
    /\ \A n \in graph.nodes :
          "project_id" \in DOMAIN n /\ n.project_id \in Projects
    /\ \A e \in graph.edges :
          /\ "project_id" \in DOMAIN e.from /\ "project_id" \in DOMAIN e.to
          /\ e.from.project_id = e.to.project_id

\* A state where C12's case happens: a cross-repository edge was merged in
\* one project while another project holds a File of the target's name, and
\* resolution has derived an edge.
TenantTaggingWitness ==
    /\ \E e \in RelsOf(graph, "CROSS_REPO_DEPENDS_ON") :
          \E n \in graph.nodes :
             /\ n.label = "File" /\ n.name = e.to.name
             /\ n.project_id # e.to.project_id
    /\ RelsOf(graph, "DEPENDS_ON_SYMBOL") # {}

\* C13: idempotent resolution.  From every reachable graph and for every
\* project, a second resolve right after the first leaves the graph as the
\* first left it.
IdempotentResolution ==
    \A p \in Projects :
        LET once == link_calls_to_definitions(graph, p)
        IN link_calls_to_definitions(once, p) = once

\* A state where C13's case happens: resolve has run on calls it resolves by
\* name and by endpoint stitching, and running it again changes nothing.
IdempotentResolutionWitness ==
    \E p \in Projects :
        /\ \E e \in RelsOf(graph, "DEPENDS_ON_SYMBOL") : e.from.project_id = p
        /\ \E e \in RelsOf(graph, "CALLS_ENDPOINT") : e.from.project_id = p
        /\ link_calls_to_definitions(graph, p) = graph

\* What the graph holds of a project.
PartOf(g, project_id) ==
    [nodes |-> {n \in g.nodes : n.project_id = project_id},
     props |-> {t \in g.props : t.node.project_id = project_id},
     edges |-> {e \in g.edges :
                  e.from.project_id = project_id \/ e.to.project_id = project_id}]

\* C18: clearing is tenant-scoped.  From every reachable graph, clearing a
\* project leaves nothing of it, leaves the part of every other project as
\* it was, and changes nothing when the project holds no data.
ClearIsTenantScoped ==
    \A p \in Projects :
        LET g == clear_project(graph, p)
        IN /\ PartOf(g, p) = EmptyGraph
           /\ \A q \in Projects \ {p} : PartOf(g, q) = PartOf(graph, q)
           /\ PartOf(graph, p) = EmptyGraph => g = graph

\* A state where C18's case happens: a project that was ingested into has
\* been cleared while another project holds nodes and relationships.
ClearIsTenantScopedWitness ==
    \E p \in Projects : \E q \in Projects \ {p} :
        /\ IngestedOf(p) # {}
        /\ PartOf(graph, p) = EmptyGraph
        /\ PartOf(graph, q).edges # {}

\* The names the record defines.
DefinedNames(r) == {d.name : d \in Range(r.data.definitions)}

\* C19: no pruning, impact continuity.  From every reachable graph, an
\* ingestion or a resolve keeps every node and relationship, and a record of
\* findAffected(p, f) for a target s is still in the answer after f is
\* ingested again with a record that does not define s and resolve is run
\* (no answer of this model reaches the 100-record cap).
NoPruning ==
    \A p \in Projects :
        /\ \A g \in AfterOperation(p) :
              graph.nodes \subseteq g.nodes /\ graph.edges \subseteq g.edges
        /\ \A r \in FileRecords :
              LET g == link_calls_to_definitions(
                           update_file_structure(graph, p, r), p)
              IN \A before \in find_affected_nodes(graph, p, r.filename) :
                 \A after \in find_affected_nodes(g, p, r.filename) :
                    \A row \in before :
                       row.dependency_name \notin DefinedNames(r) => row \in after

\* A state where C19's case happens: a file was ingested with a record that
\* does not define s, resolve has run, and the answer for the file holds a
\* record for s.
NoPruningWitness ==
    \E pr \in ingested :
        /\ link_calls_to_definitions(graph, pr[1]) = graph
        /\ \E row \in AffectedRows(graph, pr[1], pr[2].filename) :
              row.dependency_name \notin DefinedNames(pr[2])

\* What the graph holds of the files a repository was processed from.
NodesOfRepository(g, repo) ==
    {n \in g.nodes :
        /\ n.project_id = repo.project_id
        /\ \E r \in CloneRecords(repo.repo_name) :
              IF n.label = "File" THEN n.name = r.filename
              ELSE n.filename = r.filename}

\* C20: graph nodes are removed with their repository.  Every step in which
\* remove_repository deletes a processed repository of its project leaves no
\* File, Function, Class or Call node of that repository in the graph.
RepositoryNodesRemoved ==
    [][\A p \in Projects : \A repo \in repositories :
          (/\ repo.project_id = p /\ repo.status = "ready"
           /\ RemoveRepository(p, repo.id))
             => NodesOfRepository(graph', repo) = {}]_vars

\* The entries of the tree a record of the results was returned for.
EntriesOf(record) ==
    {e \in crawl.tree : RelativeName(e.parts) = record.filename}

\* C14: exclusion correctness.  A record is in the results only for a file
\* no part of whose path is a deny-listed directory name, whose name is not a
\* deny-listed file name and, when the .gitignore loaded, whose path its
\* lines do not match; the deny-list applies with and without a .gitignore.
ExclusionCorrectness ==
    \A k \in 1..Len(crawl.results) :
        /\ EntriesOf(crawl.results[k]) # {}
        /\ \A e \in EntriesOf(crawl.results[k]) :
              /\ e.is_file
              /\ \A i \in 1..Len(e.parts) : e.parts[i] \notin EXCLUDED_DIRS
              /\ PathName(e.parts) \notin EXCLUDED_FILES
              /\ crawl.gitignore = "lines" => ~match_file(GitignoreLines, e.parts)

\* A state where C14's case happens: the crawl of a tree without a loaded
\* .gitignore is over, a source file below a deny-listed directory was
\* passed over and another file has its record.
ExclusionCorrectnessWitness ==
    /\ crawl.pending = {}
    /\ crawl.gitignore # "lines"
    /\ crawl.skipped_count = 1
    /\ Len(crawl.results) = 1

\* The number of records of the results returned for the path.
RecordsFor(parts) ==
    Cardinality({k \in 1..Len(crawl.results) :
                    crawl.results[k].filename = RelativeName(parts)})

\* C15: per-file failure isolation.  Whatever files fail (read error, worker
\* unreachable, non-200 response), the crawl goes on to the end, and the
\* results hold exactly one record for each file whose extraction succeeded
\* and none for a file whose extraction failed.
FailureIsolation ==
    /\ \A sent \in crawl.sent :
          RecordsFor(sent.parts) = IF sent.outcome = "ok" THEN 1 ELSE 0
    /\ Len(crawl.results) =
          Cardinality({sent \in crawl.sent : sent.outcome = "ok"})
    /\ crawl.pending # {} => ENABLED NextCrawl

\* A state where C15's case happens: the crawl is over, one file failed with
\* a non-200 response or an exception and another has its record.
FailureIsolationWitness ==
    /\ crawl.pending = {}
    /\ \E sent \in crawl.sent : sent.outcome # "ok"
    /\ \E sent \in crawl.sent : sent.outcome = "ok"
    /\ Len(crawl.results) = 1

\* C17: extension routing.  Every visited file that survives exclusion is
\* sent to the Python extractor when its extension is .py, to the TypeScript
\* extractor when it is .ts, .tsx or .js, and has no record otherwise.
ExtensionRouting ==
    \A e \in crawl.tree \ crawl.pending :
        (e.is_file /\ ~should_exclude(e.parts, crawl.gitignore_spec)) =>
            LET ext == Suffix(e.parts)
                SentTo(worker) ==
                    \E sent \in crawl.sent :
                        sent.parts = e.parts /\ sent.worker = worker
            IN IF ext = ".py" THEN SentTo("python")
               ELSE IF ext \in {".ts", ".tsx", ".js"} THEN SentTo("typescript")
               ELSE RecordsFor(e.parts) = 0

\* The positions of the nodes of a tree: the child indices from the root.
RECURSIVE Positions(_)
Positions(node) ==
    {<<>>} \cup UNION {{<<i>> \o p : p \in Positions(node.children[i])} :
                          i \in DOMAIN node.children}

RECURSIVE NodeAt(_, _)
NodeAt(node, pos) ==
    IF pos = <<>> THEN node ELSE NodeAt(node.children[pos[1]], Tail(pos))

\* The definition nodes that enclose the position, as prefix lengths.
EnclosingDefinitions(root, pos) ==
    {k \in 0..(Len(pos) - 1) : NodeAt(root, SubSeq(pos, 1, k)).type \in NamedTypes}

\* The name of the nearest definition node enclosing the position, None at
\* module scope.
NearestDefinition(root, pos) ==
    LET ks == EnclosingDefinitions(root, pos)
    IN IF ks = {} THEN None
       ELSE LET k == CHOOSE k \in ks : \A j \in ks : j <= k
            IN NodeAt(root, SubSeq(pos, 1, k)).name

\* C16: parent attribution.  For every syntax tree and each call in it, the
\* call record extracted for it has as parent the name of the nearest
\* function, method or class definition node enclosing the call, and no
\* parent when the call is at module scope.
ParentAttribution ==
    parse.results # None =>
        \A pos \in Positions(parse.root_node) :
            LET node == NodeAt(parse.root_node, pos)
            IN node.type \in {"call", "call_expression"} =>
                  \E k \in DOMAIN parse.results[1].calls :
                     LET record == parse.results[1].calls[k]
                     IN /\ "type" \notin DOMAIN record
                        /\ record.name = node.function[1]
                        /\ record.line = node.line
                        /\ record.parent = NearestDefinition(parse.root_node, pos)

EndsWith(s, suffix) ==
    Len(s) >= Len(suffix) /\ SubSeq(s, Len(s) - Len(suffix) + 1, Len(s)) = suffix

MinifiedOrMap(parts) ==
    EndsWith(PathName(parts), ".min.js") \/ EndsWith(PathName(parts), ".map")

\* C27: minified and source-map files are always excluded.  With or without
\* a .gitignore, no file whose name ends in .min.js or .map is sent to a
\* worker, and none has a record in the results of the crawl.
MinifiedExcluded ==
    crawl # None =>
        \A e \in crawl.tree :
            MinifiedOrMap(e.parts) =>
                /\ \A s \in crawl.sent : s.parts # e.parts
                /\ RecordsFor(e.parts) = 0

\* The Function and Class nodes of the file and project named like the parent.
NamedBy(g, parent, filename, project_id) ==
    IF parent = None THEN {}
    ELSE {s \in g.nodes : /\ IsSymbol(s)
                          /\ s.name = parent[1]
                          /\ s.filename = filename
                          /\ s.project_id = project_id}

CallsOutInto(g, c) == {e \in RelsOf(g, "CALLS_OUT") : e.to = c}

\* C26: permissive parent linking.  From every reachable graph, one ingestFile
\* of a record creates the Call node and the PERFORMS_CALL edge of each of its
\* calls; for a call whose parent names no Function or Class of the file and
\* project it creates no CALLS_OUT edge; for a call whose parent names a
\* definition of the record, the CALLS_OUT edge from that symbol, Function
\* or Class, exists afterwards, on whichever lines the two are.
PermissiveParentLinking ==
    \A p \in Projects : \A r \in EditRecords :
        LET g == update_file_structure(graph, p, r)
        IN \A call \in Range(r.data.calls) :
              LET c == CallNode(call.name, call.line, r.filename, p)
              IN /\ c \in g.nodes
                 /\ Rel("PERFORMS_CALL", FileNode(r.filename, p), c) \in g.edges
                 /\ NamedBy(g, call.parent, r.filename, p) = {} =>
                       CallsOutInto(g, c) = CallsOutInto(graph, c)
                 /\ \A d \in Range(r.data.definitions) :
                       Some(d.name) = call.parent =>
                          Rel("CALLS_OUT",
                              SymbolNode(IF d.type = "function" THEN "Function"
                                         ELSE "Class",
                                         d.name, r.filename, p),
                              c) \in g.edges

\* A state where C26's case happens: a call whose parent names no symbol has
\* been ingested and has its PERFORMS_CALL edge and no CALLS_OUT edge, and a
\* call in a class body has its CALLS_OUT edge from the Class.
PermissiveParentLinkingWitness ==
    /\ \E c \in CallsOf(graph, "p1") :
          /\ Prop(graph, c, "parent") = Some("gone")
          /\ \E e \in RelsOf(graph, "PERFORMS_CALL") : e.to = c
          /\ CallsOutInto(graph, c) = {}
    /\ \E pr \in ingested : pr[2].data.definitions = <<>>
    /\ \E pr \in ingested : \E d \in Range(pr[2].data.definitions) : d.type = "class"

\* C28: call attribution stays consistent with the parent property.  In every
\* reachable state, every CALLS_OUT edge into a Call node comes from a
\* Function or Class of the call's file and project whose name is the Call
\* node's current parent, also after the call site (same name, line and
\* filename) is ingested again with another parent.
CallAttributionConsistent ==
    \A e \in RelsOf(graph, "CALLS_OUT") :
        e.to.label = "Call" =>
            /\ IsSymbol(e.from)
            /\ e.from.filename = e.to.filename
            /\ e.from.project_id = e.to.project_id
            /\ Prop(graph, e.to, "parent") = Some(e.from.name)

DistinctFilenames(S) == \A ra, rb \in S : ra.filename = rb.filename => ra = rb

\* C24: ingestion order does not matter.  Whenever the records ingested into
\* a project have pairwise distinct filenames, ingesting them in any order
\* and then running resolve yields the graph (nodes, properties and edges)
\* that resolve yields from the order they were ingested in, and so the same
\* rows for findAffected on every file.
IngestionOrderIrrelevant ==
    \A p \in Projects :
        LET S == IngestedOf(p)
            now == PartOf(link_calls_to_definitions(graph, p), p)
        IN DistinctFilenames(S) =>
              \A order \in Orders(S) :
                 LET g == link_calls_to_definitions(
                              IngestAll(EmptyGraph, p, order), p)
                 IN /\ g = now
                    /\ \A r \in S :
                          AffectedRows(g, p, r.filename)
                              = AffectedRows(now, p, r.filename)

\* A state where C24's case happens: three records of distinct files, one
\* calling into the next, were ingested into a project in some order and
\* resolved, and the dependencies between them are derived.
IngestionOrderIrrelevantWitness ==
    \E p \in Projects :
        /\ Cardinality(IngestedOf(p)) = 3
        /\ DistinctFilenames(IngestedOf(p))
        /\ link_calls_to_definitions(graph, p) = graph
        /\ \E ra, rb \in IngestedOf(p) :
              /\ ra # rb
              /\ AffectedRows(graph, p, ra.filename) # {}
              /\ AffectedRows(graph, p, rb.filename) # {}

\* C30: no spurious self-dependency.  A TypeScript function or method whose
\* body holds no call of and no reference to its own name (no body of the
\* catalogue does) never gets, from extraction, ingestFile and resolve, a
\* DEPENDS_ON_SYMBOL edge to itself, and findAffected on its file never
\* lists it as depending on itself.
NoSelfDependency ==
    (parse # None /\ parse.language = "typescript") =>
        /\ \A e \in RelsOf(graph, "DEPENDS_ON_SYMBOL") : e.from # e.to
        /\ \A row \in AffectedRows(graph, "p1", SourceName("typescript")) :
              row.affected_symbol # row.dependency_name

\* C25: distinct files never share node keys.  In every reachable state, for
\* two processed repositories of one project, a file of the one and a file
\* of the other are ingested under distinct keys: the File, Symbol and Call
\* nodes ingestFile writes for the one are none of those it writes for the
\* other.
DistinctFilesDistinctKeys ==
    \A ra, rb \in repositories :
        (/\ ra.project_id = rb.project_id
         /\ ra.repo_name # rb.repo_name
         /\ ra.status = "ready" /\ rb.status = "ready") =>
            \A fa \in CloneRecords(ra.repo_name), fb \in CloneRecords(rb.repo_name) :
                update_file_structure(EmptyGraph, ra.project_id, fa).nodes
                    \cap update_file_structure(EmptyGraph, rb.project_id, fb).nodes
                  = {}

\* C23: derived edges are recomputed after every ingestion batch.  Every run
\* of the background processing of a repository that ingested at least one
\* file, whether it ends ready or with an error part-way, leaves the graph
\* as resolve leaves it: no Call/Function name match of the project is
\* without its TARGETS and DEPENDS_ON_SYMBOL edges.
ResolvedAfterBatch ==
    [][\A repo \in repositories :
          (ProcessRepo(repo.id) /\ graph' # graph) =>
              link_calls_to_definitions(graph', repo.project_id) = graph']_vars

IngestSessions == {s \in Sessions : transactions[s].op = "ingest"}

\* The session's transaction has run its last statement.
Finished(s) ==
    LET t == transactions[s]
    IN t.pc > (IF t.op = "ingest"
               THEN Len(IngestStatements(t.analysis_result[1].data))
               ELSE Len(ResolveStatements))

\* Two or more ingestions ran concurrently and all of them have finished.
IngestionsFinished ==
    Cardinality(IngestSessions) >= 2 /\ \A s \in IngestSessions : Finished(s)

DerivedTypes == {"TARGETS", "CALLS_ENDPOINT", "DEPENDS_ON_SYMBOL"}

\* The graph without the edges resolve writes: what the ingestions wrote.
WithoutDerived(g) == [g EXCEPT !.edges = {e \in @ : e.type \notin DerivedTypes}]

\* The graphs the ingestions of the sessions give when run one after the
\* other, in each order.
SequentialGraphs ==
    {IngestAll(EmptyGraph, "p1",
               [i \in 1..Cardinality(IngestSessions) |->
                   transactions[order[i]].analysis_result[1]]) :
        order \in Orders(IngestSessions)}

\* At most one node of the graph has the key of n.
OneNodePerKey(g) ==
    \A n \in g.nodes :
        Cardinality({m \in g.nodes :
            /\ m.label = n.label /\ m.name = n.name
            /\ m.project_id = n.project_id
            /\ (n.label # "File" => m.filename = n.filename)
            /\ (n.label = "Call" => m.line = n.line)}) = 1

StructuralEdges(g) == {e \in g.edges : e.type \in {"CONTAINS", "PERFORMS_CALL"}}

Attribution(g) == RelsOf(g, "CALLS_OUT")

ValidDerivedEdge(g, e) ==
    /\ e.from \in g.nodes /\ e.to \in g.nodes
    /\ e.from.project_id = e.to.project_id
    /\ e.type = "TARGETS" =>
          /\ e.from.label = "Call" /\ e.to.label = "Function"
          /\ \/ e.from.name = e.to.name
             \/ e.from.name \in ClaimedVerbs /\ ClaimedEndpointName(e.to.name)
    /\ e.type = "CALLS_ENDPOINT" =>
          /\ e.from.label = "Call" /\ e.to.label = "Function"
          /\ e.from.name \in ClaimedVerbs /\ ClaimedEndpointName(e.to.name)
    /\ e.type = "DEPENDS_ON_SYMBOL" =>
          \E c \in g.nodes :
              /\ Rel("CALLS_OUT", e.from, c) \in g.edges
              /\ Rel("TARGETS", c, e.to) \in g.edges

\* C22: resolve interleaved with ingestion is eventually consistent.  While
\* resolve runs concurrently with or between the ingestions of a project,
\* every state holds only TARGETS, CALLS_ENDPOINT and DEPENDS_ON_SYMBOL edges
\* between existing nodes that satisfy the resolution rules; and once all
\* ingestions have finished, one resolve yields the graph that resolving
\* once yields from what the ingestions wrote.
ResolveEventuallyConsistent ==
    /\ \A e \in graph.edges :
          e.type \in DerivedTypes => ValidDerivedEdge(graph, e)
    /\ (IngestSessions # {} /\ \A s \in IngestSessions : Finished(s)) =>
          link_calls_to_definitions(graph, "p1")
              = link_calls_to_definitions(WithoutDerived(graph), "p1")

\* A state where C22's case happens: a resolve ran among the statements of
\* two ingestions and has finished, as they have; the graph holds some of
\* the derived edges and not all of them.
ResolveEventuallyConsistentWitness ==
    /\ Cardinality(IngestSessions) = 2
    /\ \A s \in Sessions : Finished(s)
    /\ \E e \in graph.edges : e.type = "DEPENDS_ON_SYMBOL"
    /\ link_calls_to_definitions(graph, "p1") # graph

\* The File nodes the project holds for the source file, under either form
\* of its relative path.
FileNodesOf(g, parts) ==
    {n \in g.nodes : /\ n.label = "File" /\ n.project_id = EntryProject
                     /\ n.name \in {JoinPath(parts, sep) : sep \in Separators}}

\* C29: one filename key per source file across entry points.  For every
\* file the crawl of initialize ingested under key k, in the root directory
\* or below it, a later check-impact or CLI file-change on the file whose
\* worker answers ingests it again and queries findAffected under k, and the
\* project holds one File node for the file.
OneKeyPerSourceFile ==
    registry # None =>
        \A ch \in registry.checks :
            (ch.parts \in registry.crawled /\ ch.outcome = "ok") =>
                /\ ch.filename = JoinPath(ch.parts, registry.sep)
                /\ ch.updated
                /\ Cardinality(FileNodesOf(graph, ch.parts)) = 1

====
